---- MODULE Spec2Model ----
(***************************************************************************)
(* A model of egui-tetra (src/src/lib.rs): EguiWrapper, which translates   *)
(* Tetra events into egui raw input and runs/draws egui frames, and        *)
(* StateWrapper, the adaptor that implements tetra::State on top of it.    *)
(*                                                                         *)
(* The host (Tetra's game loop) calls the three callbacks event, update    *)
(* and draw on one thread; each callback is one action.  The game's own    *)
(* State callbacks, the egui library, the clipboard and the URL opener are *)
(* the environment: their results are chosen nondeterministically.         *)
(***************************************************************************)
EXTENDS Integers, Sequences, FiniteSets

\* ---------------------------------------------------------------- bounds

\* Host events delivered over a run of the frame-lifecycle specifications (the
\* counter that tags them is capped).
MaxEvents == 2

\* Host events delivered over a run of the keyboard specification.
MaxKeyEvents == 3

\* Primitives egui's tessellator may return for one frame.
MaxPrims == 1

\* Primitives per frame in the drawing specification.
MaxDrawPrims == 2

\* Draws of the same stored batches that are counted.
MaxRenders == 2

\* Versions the GUI library's font atlas goes through in the atlas
\* specification.
MaxAtlasVersions == 2

\* Font textures whose creation is counted.
MaxUploads == 2

\* ------------------------------------------------------- program state

VARIABLES
    events,      \* StateWrapper.events: host events queued for the game
    egui,        \* StateWrapper.egui: the EguiWrapper (raw_input, ctx, texture, meshes)
    down,        \* Tetra's keyboard state: the modifier keys physically held
    nextId,      \* tag of the next host event
    appended,    \* number of egui events pushed to raw_input.events so far
    submitted,   \* tags of the egui events handed to ctx.begin_frame so far, in order
    dispatched,  \* tags of the host events handed to State::event so far, in order
    last,        \* the host callback that ran last, with its result and inputs
    calls,       \* the calls the last host callback made, in order
    filtered,    \* the queued events the last update's drain loop visited
    failure,     \* the step of the last host callback that returned an error, or "none"
    gfx,         \* Tetra's graphics state: scissor rectangle and blend state
    entry,       \* Tetra's graphics state when the last callback entered draw_frame
    handled,     \* the host event the last callback handled, if it was an event callback
    rendered     \* the draw_frame calls since the last begin_frame, as far as counted

vars == <<events, egui, down, nextId, appended, submitted, dispatched, last, calls,
          filtered, failure, gfx, entry, handled, rendered>>

\* ------------------------------------------------------------ host events

CtrlKeys == {"LeftCtrl", "RightCtrl"}
ShiftKeys == {"LeftShift", "RightShift"}
AltKeys == {"LeftAlt", "RightAlt"}
ModifierKeys == CtrlKeys \cup ShiftKeys \cup AltKeys

HostEvent(type, arg) == [type |-> type, arg |-> arg]

\* The last callback was no event callback.
NoEvent == HostEvent("None", "-")

\* The events the frame-lifecycle specification delivers: key presses and
\* releases, a pointer event and an event of a category that is never filtered.
LifecycleEvents ==
    {HostEvent("KeyPressed", "A"), HostEvent("KeyReleased", "A"),
     HostEvent("MouseMoved", "-"), HostEvent("TextInput", "-")}

\* The events the pointer specification delivers: every pointer category, and
\* two categories that are never filtered.
PointerEvents ==
    {HostEvent("MouseButtonPressed", "Left"), HostEvent("MouseButtonReleased", "Left"),
     HostEvent("MouseMoved", "-"), HostEvent("MouseWheelMoved", "-"),
     HostEvent("TextInput", "-"), HostEvent("Resized", "-")}

\* The events the keyboard specification delivers: every modifier
\* key, left and right, and a non-modifier key.
KeyboardEvents ==
    {HostEvent(t, k) : t \in {"KeyPressed", "KeyReleased"}, k \in ModifierKeys \cup {"A"}}

\* The events the drawing specification delivers.
DrawEvents == {HostEvent("MouseMoved", "-")}

\* The events the atlas specification delivers.
AtlasEvents == {HostEvent("TextInput", "-")}

\* The events the clipboard specification delivers: a Ctrl key pressed and
\* released, the three clipboard keys, another modifier key, a key release.
ClipboardEvents ==
    {HostEvent("KeyPressed", k) : k \in {"LeftCtrl", "LeftShift", "C", "X", "V"}}
    \cup {HostEvent("KeyReleased", k) : k \in {"LeftCtrl", "C"}}

\* The events the side-effect specification delivers: the keys of a paste.
EffectEvents == {HostEvent("KeyPressed", k) : k \in {"LeftCtrl", "V"}}

\* The events the copy specification delivers: the keys of a copy.
CopyEvents == {HostEvent("KeyPressed", k) : k \in {"LeftCtrl", "C"}}

\* The events the unmapped-code specification delivers: a key and a mouse
\* button without GUI equivalent, a Ctrl key, a mapped key and a mapped button.
UnmappedEvents ==
    {HostEvent("KeyPressed", "F1"), HostEvent("KeyReleased", "F1"),
     HostEvent("KeyPressed", "LeftCtrl"), HostEvent("KeyPressed", "A"),
     HostEvent("MouseButtonPressed", "X1"), HostEvent("MouseButtonReleased", "X1"),
     HostEvent("MouseButtonPressed", "Left")}

\* The events the wheel specification delivers: the wheel, a Ctrl key pressed
\* and released.
WheelEvents ==
    {HostEvent("MouseWheelMoved", "-"), HostEvent("KeyPressed", "RightCtrl"),
     HostEvent("KeyReleased", "RightCtrl")}

IsKeyEvent(e) == e.type \in {"KeyPressed", "KeyReleased"}

\* ------------------------------------------------------ pure conversions

\* Every Tetra key has a GUI key.
tetra_key_to_egui_keyTotal(key) == key

\* tetra_key_to_egui_key: the modifier and function keys have no egui key.
tetra_key_to_egui_key(key) ==
    IF key \in {"A", "C", "V", "X"} THEN key ELSE "None"

tetra_mouse_button_to_egui_pointer_button(button) ==
    CASE button = "Left" -> "Primary"
      [] button = "Middle" -> "Middle"
      [] button = "Right" -> "Secondary"
      [] OTHER -> "None"

\* ------------------------------------------------------------ EguiWrapper

NoModifiers == [ctrl |-> FALSE, shift |-> FALSE, alt |-> FALSE, command |-> FALSE]

\* EguiWrapper::new: RawInput::default(), CtxRef::default(), no texture, no meshes.
\* ctx.font_version is the version of the font image ctx.font_image() returns;
\* texture_version is the version of the font image the texture was made
\* from (0: there is no texture); uploads counts the font textures created so
\* far, up to MaxUploads.
EguiWrapperNew ==
    [raw_input |-> [events |-> <<>>, modifiers |-> NoModifiers],
     ctx |-> [phase |-> "Idle", font_version |-> 1],
     texture |-> "None",
     texture_version |-> 0,
     uploads |-> 0,
     meshes |-> <<>>]

\* The "update modifiers" match of a KeyPressed / KeyReleased event.
UpdateModifiers(m, key, pressed) ==
    CASE key \in CtrlKeys -> [m EXCEPT !.ctrl = pressed, !.command = pressed]
      [] key \in ShiftKeys -> [m EXCEPT !.shift = pressed]
      [] key \in AltKeys -> [m EXCEPT !.alt = pressed]
      [] OTHER -> m

\* Copy for X and Cut for C.
ClipboardIntentSwapped(key, m) ==
    IF key = "C" THEN <<[kind |-> "Cut", arg |-> "-", modifiers |-> m]>>
    ELSE IF key = "X" THEN <<[kind |-> "Copy", arg |-> "-", modifiers |-> m]>>
    ELSE IF key = "V" THEN <<[kind |-> "Text", arg |-> "clipboard", modifiers |-> m]>>
    ELSE <<>>

\* The copy/cut/paste block of EguiWrapper::event for a key pressed while a
\* Ctrl key is down: Event::Copy for C, Event::Cut for X, and for V an
\* Event::Text that carries the clipboard's contents.
ClipboardIntent(key, m) ==
    IF key = "C" THEN <<[kind |-> "Copy", arg |-> "-", modifiers |-> m]>>
    ELSE IF key = "X" THEN <<[kind |-> "Cut", arg |-> "-", modifiers |-> m]>>
    ELSE IF key = "V" THEN <<[kind |-> "Text", arg |-> "clipboard", modifiers |-> m]>>
    ELSE <<>>

\* The Key event carries default modifiers.
KeyModifiersDefault(raw_modifiers) == NoModifiers

\* `modifiers: self.raw_input.modifiers` of the Key event, read after the
\* match that updates them.
KeyModifiers(raw_modifiers) == raw_modifiers

\* The wheel always scrolls.
WheelIntentScroll(isCtrlDown) == "Scroll"

\* The MouseWheelMoved arm: Zoom under a Ctrl key, Scroll otherwise.
WheelIntent(isCtrlDown) == IF isCtrlDown THEN "Zoom" ELSE "Scroll"

\* The egui events one host event is translated to, untagged.  isCtrlDown is
\* tetra::input::is_key_down for either Ctrl key, m the modifiers after the
\* event's own modifier update.
Translate(e, m, isCtrlDown) ==
    CASE e.type = "KeyPressed" ->
           (IF isCtrlDown THEN ClipboardIntent(e.arg, m) ELSE <<>>)
           \o (IF tetra_key_to_egui_key(e.arg) # "None"
               THEN <<[kind |-> "KeyDown", arg |-> tetra_key_to_egui_key(e.arg), modifiers |-> m]>>
               ELSE <<>>)
      [] e.type = "KeyReleased" ->
           IF tetra_key_to_egui_key(e.arg) # "None"
           THEN <<[kind |-> "KeyUp", arg |-> tetra_key_to_egui_key(e.arg), modifiers |-> m]>>
           ELSE <<>>
      [] e.type = "MouseButtonPressed" ->
           IF tetra_mouse_button_to_egui_pointer_button(e.arg) # "None"
           THEN <<[kind |-> "PointerDown",
                   arg |-> tetra_mouse_button_to_egui_pointer_button(e.arg), modifiers |-> m]>>
           ELSE <<>>
      [] e.type = "MouseButtonReleased" ->
           IF tetra_mouse_button_to_egui_pointer_button(e.arg) # "None"
           THEN <<[kind |-> "PointerUp",
                   arg |-> tetra_mouse_button_to_egui_pointer_button(e.arg), modifiers |-> m]>>
           ELSE <<>>
      [] e.type = "MouseMoved" -> <<[kind |-> "PointerMoved", arg |-> "-", modifiers |-> m]>>
      [] e.type = "MouseWheelMoved" ->
           <<[kind |-> WheelIntent(isCtrlDown), arg |-> "-", modifiers |-> m]>>
      [] e.type = "TextInput" -> <<[kind |-> "Text", arg |-> "typed", modifiers |-> m]>>
      [] OTHER -> <<>>

\* Tags the translated events: n numbers the pushes, src names the host event.
Tagged(gs, src, from) ==
    [i \in 1..Len(gs) |->
        [n |-> from + i, src |-> src, kind |-> gs[i].kind, arg |-> gs[i].arg,
         modifiers |-> gs[i].modifiers]]

\* The clipboard is read for every press of V, Ctrl or not.
IsPasteWithoutCtrl(e, isCtrlDown) == e.type = "KeyPressed" /\ e.arg = "V"

\* The one place of EguiWrapper::event that reads the clipboard: a KeyPressed
\* for V inside the `is_key_down(LeftCtrl) | is_key_down(RightCtrl)` block.
IsPaste(e, isCtrlDown) == e.type = "KeyPressed" /\ isCtrlDown /\ e.arg = "V"

\* The Key event is pushed before the clipboard is read.
PushedBeforeReadKey(e, m) ==
    <<[kind |-> "KeyDown", arg |-> tetra_key_to_egui_key(e.arg), modifiers |-> m]>>

\* What the KeyPressed arm has pushed when it reads the clipboard: nothing,
\* the Copy and Cut pushes are for other keys and the Key push comes later.
PushedBeforeRead(e, m) == <<>>

\* The From impls of Error, which `?` applies to the error it propagates.
ErrorFrom(source) ==
    CASE source = "TetraError" -> "Error::TetraError"
      [] source = "std::io::Error" -> "Error::OpenError"
      [] source = "Box<dyn Error>" -> "Error::ClipboardError"

\* EguiWrapper::event.  clipboardOk is the outcome of ClipboardContext::new()
\* and get_contents(), which run only for a Ctrl+V key press; on their failure
\* the function returns before anything is pushed (the modifiers are already
\* updated).
EguiEvent(w, e, src, from, isCtrlDown, clipboardOk) ==
    LET m == IF IsKeyEvent(e)
             THEN UpdateModifiers(w.raw_input.modifiers, e.arg, e.type = "KeyPressed")
             ELSE w.raw_input.modifiers
        paste == IsPaste(e, isCtrlDown)
        pushed == IF paste /\ ~clipboardOk
                  THEN Tagged(PushedBeforeRead(e, KeyModifiers(m)), src, from)
                  ELSE Tagged(Translate(e, KeyModifiers(m), isCtrlDown), src, from)
    IN  [ok |-> ~(paste /\ ~clipboardOk),
         paste |-> paste,
         reads |-> IF ~paste THEN <<>>
                   ELSE IF clipboardOk THEN <<[op |-> "get_contents", arg |-> 1]>>
                   ELSE <<[op |-> "get_contents", arg |-> 0],
                          [op |-> ErrorFrom("Box<dyn Error>"), arg |-> 0]>>,
         w |-> [w EXCEPT !.raw_input.modifiers = m,
                         !.raw_input.events = @ \o pushed]]

\* One call made by a host callback.
Call(op, arg) == [op |-> op, arg |-> arg]

\* The calls of log cs whose operation is in ops, in order.
Only(cs, ops) == SelectSeq(cs, LAMBDA c : c.op \in ops)

OpsOf(cs) == [i \in 1..Len(cs) |-> cs[i].op]

ArgsOf(cs) == [i \in 1..Len(cs) |-> cs[i].arg]

\* The host events handed to State::event by the callback whose log is cs.
PassedIds(cs) == ArgsOf(Only(cs, {"State::event"}))

Has(cs, op) == \E i \in 1..Len(cs) : cs[i].op = op

\* A copy of the raw input is handed to the GUI and the events stay queued
\* (clone() in place of take()).
RawInputClone(raw) ==
    [taken |-> raw.events, rest |-> raw]

\* The whole raw input is replaced by RawInput::default(): the modifier flags
\* are cleared with the events.
RawInputTakeAll(raw) ==
    [taken |-> raw.events, rest |-> [raw EXCEPT !.events = <<>>, !.modifiers = NoModifiers]]

\* RawInput::take as begin_frame uses it: the events move to the returned
\* value, the modifiers stay.
RawInputTake(raw) ==
    [taken |-> raw.events, rest |-> [raw EXCEPT !.events = <<>>]]

\* begin_frame without self.meshes.clear().
KeepMeshes(meshes) == meshes

\* self.meshes.clear() of begin_frame.
ClearMeshes(meshes) == <<>>

\* The font texture is made anew in every begin_frame.
NeedsUploadAlways(w) == TRUE

\* `if self.texture.is_none()` of begin_frame.
NeedsUpload(w) == w.texture = "None"

\* EguiWrapper::begin_frame.  version is the version of the font image the
\* GUI library has once ctx.begin_frame has run.  textureOk is the outcome of
\* creating the font texture, attempted only while there is none; it comes
\* after the raw input was handed to ctx.begin_frame.
begin_frame(w, version, textureOk) ==
    LET t == RawInputTake(w.raw_input)
        upload == NeedsUpload(w)
    IN  [ok |-> ~upload \/ textureOk,
         upload |-> upload,
         input |-> t.taken,
         w |-> [w EXCEPT !.meshes = ClearMeshes(@),
                         !.raw_input = t.rest,
                         !.ctx.phase = "FrameBegun",
                         !.ctx.font_version = version,
                         !.texture = IF upload /\ textureOk THEN "Some" ELSE @,
                         !.texture_version = IF upload /\ textureOk THEN version ELSE @,
                         !.uploads = IF upload /\ textureOk /\ @ < MaxUploads
                                     THEN @ + 1 ELSE @]]

\* One stored batch: the primitive's clip rectangle and its mesh, bound to the
\* atlas texture.
Batch(prim, texture) == [rect |-> prim.rect, mesh |-> prim.mesh, texture |-> texture]

\* The tessellator's possible outputs: up to MaxPrims primitives, each with its
\* own clip rectangle.
Prim(i) == [rect |-> i, mesh |-> i]
TessOutputs == {[i \in 1..n |-> Prim(i)] : n \in 0..MaxPrims}

\* What one egui frame may produce: the capability verdicts, the tessellated
\* primitives, the requested side effects, and how the platform answers.
\* meshFail = k > 0: building the k-th mesh fails.  Outcomes of steps that are
\* not attempted are fixed.
FrameOutput(wk, up, ts, mf, url, op, ct, cb) ==
    [wants_keyboard_input |-> wk, is_using_pointer |-> up, tess |-> ts,
     meshFail |-> mf, open_url |-> url, open |-> op, copied_text |-> ct,
     clipboardOk |-> cb]

\* Frames that request no side effect (no URL to open, no copied text).
QuietOutputs ==
    {FrameOutput(wk, up, ts, mf, FALSE, "ok", "", TRUE) :
        wk \in BOOLEAN, up \in BOOLEAN, ts \in TessOutputs, mf \in 0..MaxPrims}

\* Frames of the drawing specification: up to MaxDrawPrims primitives, no side
\* effect, the keyboard never wanted.
DrawTessOutputs == {[i \in 1..n |-> Prim(i)] : n \in 0..MaxDrawPrims}

DrawOutputs ==
    {FrameOutput(FALSE, up, ts, mf, FALSE, "ok", "", TRUE) :
        up \in BOOLEAN, ts \in DrawTessOutputs, mf \in 0..MaxDrawPrims}

\* How opening a URL may end: the opener ran and exited with status zero, it
\* could not be launched, or it exited with a non-zero status.
OpenOutcomes == {"ok", "io_error", "exit_nonzero"}

OutcomeCode(outcome) ==
    CASE outcome = "ok" -> 0
      [] outcome = "io_error" -> 1
      [] outcome = "exit_nonzero" -> 2

\* Frames with every side effect: a URL to open or none, copied text or none,
\* and every answer of the platform; the GUI claims neither keyboard nor
\* pointer.
EffectOutputs ==
    {o \in {FrameOutput(FALSE, FALSE, ts, mf, url, op, ct, cb) :
                ts \in TessOutputs, mf \in 0..MaxPrims,
                url \in BOOLEAN, op \in OpenOutcomes,
                ct \in {"", "text"}, cb \in BOOLEAN} :
        /\ ~o.open_url => o.open = "ok"
        /\ o.copied_text = "" => o.clipboardOk}

\* Frames of the copy specification: nothing to draw, every side effect and
\* every answer of the platform, a GUI that may want the keyboard.
CopyOutputs ==
    {o \in {FrameOutput(wk, FALSE, <<>>, 0, url, op, ct, cb) :
                wk \in BOOLEAN, url \in BOOLEAN, op \in OpenOutcomes,
                ct \in {"", "text"}, cb \in BOOLEAN} :
        /\ ~o.open_url => o.open = "ok"
        /\ o.copied_text = "" => o.clipboardOk}

\* Frames of an empty GUI: nothing to draw, no side effect.
EmptyOutputs ==
    {FrameOutput(wk, up, <<>>, 0, FALSE, "ok", "", TRUE) : wk \in BOOLEAN, up \in BOOLEAN}

\* Each batch is pushed in front of the ones before it.
PushMeshesInFront(meshes, tess, meshFail, texture) ==
    LET n == IF meshFail = 0 THEN Len(tess) ELSE meshFail - 1
    IN  [i \in 1..n |-> [rect |-> tess[n + 1 - i].rect, mesh |-> tess[n + 1 - i].mesh,
                         texture |-> texture]] \o meshes

\* The meshes end_frame pushes: one batch per primitive, in order, up to the
\* first one that fails to build.
PushMeshes(meshes, tess, meshFail, texture) ==
    LET n == IF meshFail = 0 THEN Len(tess) ELSE meshFail - 1
    IN  meshes \o [i \in 1..n |-> Batch(tess[i], texture)]

\* Only a launcher that could not be started is an error; its exit status is
\* dropped.
open_thatStatusIgnored(outcome) == outcome = "io_error"

\* Whether open::that(&open_url.url) is an Err, which the `?` returns.  The
\* open crate (from 2.0, the version whose io::Result<()> Error::OpenError
\* wraps) answers Err(io::Error) both when the launcher cannot be started and
\* when it exits with a non-zero status.
open_that(outcome) == outcome # "ok"

\* The clipboard is written after every frame, copied text or not.
CopiesTextAlways(out) == TRUE

\* `if !output.copied_text.is_empty()` of end_frame.
CopiesText(out) == out.copied_text # ""

\* The text handed to set_contents.
TextCode(text) == IF text = "" THEN 0 ELSE 1

\* EguiWrapper::end_frame.  reports: what ctx.wants_keyboard_input() and
\* ctx.is_using_pointer() answer from this ctx.end_frame() until the next one
\* (the program asks only in the drain loop that follows), and the copied text
\* of the output ctx.end_frame() returned.
\* The clipboard is written before the URL is opened.
SideEffectCallsClipboardFirst(out) ==
    (IF CopiesText(out)
     THEN <<[op |-> "set_contents", arg |-> TextCode(out.copied_text)]>> ELSE <<>>)
    \o (IF (CopiesText(out) => out.clipboardOk) /\ out.open_url
        THEN <<[op |-> "open::that", arg |-> OutcomeCode(out.open)]>> ELSE <<>>)

\* The side effects of end_frame behind the mesh loop, in statement order:
\* open::that for a clicked URL, whose `?` returns on failure, then
\* set_contents for copied text.
SideEffectCalls(out) ==
    (IF out.open_url THEN <<Call("open::that", OutcomeCode(out.open))>> ELSE <<>>)
    \o (IF ~(out.open_url /\ open_that(out.open)) /\ CopiesText(out)
        THEN <<Call("set_contents", TextCode(out.copied_text))>> ELSE <<>>)

end_frame(w, out) ==
    LET hasTex == w.texture # "None"
        meshErr == hasTex /\ out.meshFail > 0
        openErr == out.open_url /\ open_that(out.open)
        clipErr == CopiesText(out) /\ ~out.clipboardOk
    IN  [ok |-> ~meshErr /\ ~openErr /\ ~clipErr,
         reports |-> [wants_keyboard_input |-> out.wants_keyboard_input,
                      is_using_pointer |-> out.is_using_pointer,
                      copied_text |-> out.copied_text],
         w |-> [w EXCEPT !.ctx.phase = "Idle",
                         !.meshes = IF hasTex
                                    THEN PushMeshes(@, out.tess, out.meshFail, w.texture)
                                    ELSE @],
         calls |-> <<Call("ctx.end_frame", 0)>>
                   \o (IF hasTex THEN <<Call("tessellate", Len(out.tess))>> ELSE <<>>)
                   \o (IF ~meshErr THEN SideEffectCalls(out) ELSE <<>>)]

\* ----------------------------------------------------------- StateWrapper

\* The filter with the key arm asking is_using_pointer.
ShouldSuppressKeysByPointer(e, ctx) ==
    CASE e.type \in {"KeyPressed", "KeyReleased"} -> ctx.is_using_pointer
      [] e.type \in {"MouseButtonPressed", "MouseButtonReleased"} -> ctx.is_using_pointer
      [] e.type = "MouseMoved" -> ctx.is_using_pointer
      [] e.type = "MouseWheelMoved" -> ctx.is_using_pointer
      [] OTHER -> FALSE

\* The filter without the MouseWheelMoved arm.
ShouldSuppressNoWheel(e, ctx) ==
    CASE e.type \in {"KeyPressed", "KeyReleased"} -> ctx.wants_keyboard_input
      [] e.type \in {"MouseButtonPressed", "MouseButtonReleased"} -> ctx.is_using_pointer
      [] e.type = "MouseMoved" -> ctx.is_using_pointer
      [] OTHER -> FALSE

\* The match of StateWrapper::update's drain loop: TRUE when the event is
\* skipped (continue) instead of being passed to State::event.
ShouldSuppress(e, ctx) ==
    CASE e.type \in {"KeyPressed", "KeyReleased"} -> ctx.wants_keyboard_input
      [] e.type \in {"MouseButtonPressed", "MouseButtonReleased"} -> ctx.is_using_pointer
      [] e.type = "MouseMoved" -> ctx.is_using_pointer
      [] e.type = "MouseWheelMoved" -> ctx.is_using_pointer
      [] OTHER -> FALSE

\* The loop iterating self.events without draining it.
AfterIter(q) == q

\* What is left in self.events when the loop over self.events.drain(..) ends,
\* normally or by the early return of `?`: dropping the Drain removes the
\* whole range.
AfterDrain(q) == <<>>

\* The drain loop.  eventFail = k > 0: State::event returns an error for the
\* queued event at position k (if the loop passes it on).  visited: the events
\* the loop reached, each with the verdict it got; passed: those handed to
\* State::event.
RECURSIVE DrainFrom(_, _, _, _, _)
DrainFrom(q, i, ctx, eventFail, acc) ==
    IF i > Len(q) THEN [acc EXCEPT !.ok = TRUE]
    ELSE LET sup == ShouldSuppress(q[i].ev, ctx)
             seen == Append(acc.visited, [id |-> q[i].id, ev |-> q[i].ev, suppressed |-> sup])
         IN  IF sup THEN DrainFrom(q, i + 1, ctx, eventFail, [acc EXCEPT !.visited = seen])
             ELSE IF i = eventFail
                  THEN [acc EXCEPT !.visited = seen, !.passed = Append(@, q[i].id), !.ok = FALSE]
                  ELSE DrainFrom(q, i + 1, ctx, eventFail,
                                 [acc EXCEPT !.visited = seen, !.passed = Append(@, q[i].id)])

Drain(q, ctx, eventFail) ==
    DrainFrom(q, 1, ctx, eventFail, [visited |-> <<>>, passed |-> <<>>, ok |-> TRUE])

EventCalls(passed) == [i \in 1..Len(passed) |-> Call("State::event", passed[i])]

\* State::update is called whatever the earlier steps returned.
UpdateCallsAlwaysUpdate(frame, dispatch, update) ==
    frame \o dispatch \o <<Call("State::update", 0)>>

\* The drain loop placed before the GUI frame.
UpdateCallsDrainFirst(frame, dispatch, update) == dispatch \o frame \o update

\* The calls of one StateWrapper::update, in statement order: the GUI frame
\* (begin_frame, State::ui, end_frame), then the drain loop's State::event
\* calls, then State::update.
UpdateCalls(frame, dispatch, update) == frame \o dispatch \o update

\* How a host callback leaves the instrumentation: which callback, its
\* result, the raw input it handed to ctx.begin_frame and what the GUI
\* reported after its ctx.end_frame.
Returned(cb, ok, input, reports) ==
    [callback |-> cb, ok |-> ok, input |-> input, reports |-> reports]

\* No frame was ended in the callback.
NoReports == [wants_keyboard_input |-> FALSE, is_using_pointer |-> FALSE, copied_text |-> ""]

\* Frames of an empty GUI that never uses the pointer.
KeyboardOutputs == {o \in EmptyOutputs : ~o.is_using_pointer}

\* StateWrapper::update, in the order of its statements; every `?` is an
\* early return.  Outs: the outputs the egui frame may produce.  Regens:
\* whether the GUI library may regenerate its font atlas in ctx.begin_frame
\* (it does when the fonts or the pixels per point changed).
Update(Outs, Regens) ==
    \E textureOk \in (IF NeedsUpload(egui) THEN BOOLEAN ELSE {TRUE}),
       regen \in (IF egui.ctx.font_version < MaxAtlasVersions THEN Regens ELSE {FALSE}) :
      LET b == begin_frame(egui, egui.ctx.font_version + (IF regen THEN 1 ELSE 0), textureOk)
          cb == <<Call("begin_frame", 0)>>
      IN
      /\ UNCHANGED <<down, nextId, appended, gfx>>
      /\ entry' = gfx
      /\ handled' = NoEvent
      /\ rendered' = 0
      /\ submitted' = submitted \o [i \in 1..Len(b.input) |-> b.input[i].n]
      /\ IF ~b.ok
         THEN /\ egui' = b.w
              /\ calls' = UpdateCalls(cb, <<>>, <<>>)
              /\ last' = Returned("update", FALSE, b.input, NoReports)
              /\ failure' = "begin_frame"
              /\ filtered' = <<>>
              /\ UNCHANGED <<events, dispatched>>
         ELSE \E uiOk \in BOOLEAN :
           IF ~uiOk
           THEN /\ egui' = b.w
                /\ calls' = UpdateCalls(cb \o <<Call("State::ui", 0)>>, <<>>, <<>>)
                /\ last' = Returned("update", FALSE, b.input, NoReports)
                /\ failure' = "State::ui"
                /\ filtered' = <<>>
                /\ UNCHANGED <<events, dispatched>>
           ELSE \E out \in Outs :
             /\ out.meshFail <= Len(out.tess)
             /\ LET e == end_frame(b.w, out)
                    ce == cb \o <<Call("State::ui", 0), Call("end_frame", 0)>> \o e.calls
                IN
                /\ egui' = e.w
                /\ IF ~e.ok
                   THEN /\ calls' = UpdateCalls(ce, <<>>, <<>>)
                        /\ last' = Returned("update", FALSE, b.input, e.reports)
                        /\ failure' = "end_frame"
                        /\ filtered' = <<>>
                        /\ UNCHANGED <<events, dispatched>>
                   ELSE \E eventFail \in 0..Len(events) :
                     /\ eventFail > 0 => ~ShouldSuppress(events[eventFail].ev, e.reports)
                     /\ LET d == Drain(events, e.reports, eventFail)
                        IN
                        /\ events' = AfterDrain(events)
                        /\ filtered' = d.visited
                        /\ dispatched' = dispatched \o d.passed
                        /\ IF ~d.ok
                           THEN /\ calls' = UpdateCalls(ce, EventCalls(d.passed), <<>>)
                                /\ last' = Returned("update", FALSE, b.input, e.reports)
                                /\ failure' = "State::event"
                           ELSE \E updateOk \in BOOLEAN :
                                /\ calls' = UpdateCalls(ce, EventCalls(d.passed),
                                                        <<Call("State::update", 0)>>)
                                /\ last' = Returned("update", updateOk, b.input, e.reports)
                                /\ failure' = IF updateOk THEN "none" ELSE "State::update"

\* Tetra's scissor rectangle and blend state.  "default" is
\* BlendState::default(), "alpha_premultiplied" is BlendState::alpha(true).
Gfx(on, rect, blend) == [scissor |-> [on |-> on, rect |-> rect], blend |-> blend]

\* No scissor rectangle, the default blend state: what Tetra starts with and
\* what reset_scissor and reset_blend_state set.
DefaultGfx == Gfx(FALSE, 0, "default")

\* What the game's State::draw may leave behind: its own scissor rectangle
\* (rectangle 0, which is no clip rectangle of the GUI) or none, its own blend
\* state or the default one.
GameGfx == {Gfx(on, 0, blend) : on \in BOOLEAN, blend \in {"default", "game"}}

\* The effect of one graphics call on Tetra's graphics state.
ApplyCall(g, c) ==
    CASE c.op = "set_blend_state" -> [g EXCEPT !.blend = "alpha_premultiplied"]
      [] c.op = "set_scissor" -> [g EXCEPT !.scissor = [on |-> TRUE, rect |-> c.arg]]
      [] c.op = "reset_scissor" -> [g EXCEPT !.scissor = DefaultGfx.scissor]
      [] c.op = "reset_blend_state" -> [g EXCEPT !.blend = DefaultGfx.blend]
      [] OTHER -> g

RECURSIVE ApplyCalls(_, _)
ApplyCalls(g, cs) ==
    IF cs = <<>> THEN g ELSE ApplyCalls(ApplyCall(g, Head(cs)), Tail(cs))

\* The scissor rectangle of the first mesh is set once for all meshes.
draw_frameOneScissor(w) ==
    <<Call("set_blend_state", 0)>>
    \o (IF w.meshes = <<>> THEN <<>> ELSE <<Call("set_scissor", w.meshes[1].rect)>>)
    \o [i \in 1..Len(w.meshes) |-> Call("mesh.draw", w.meshes[i].mesh)]
    \o <<Call("reset_scissor", 0), Call("reset_blend_state", 0)>>

\* The scissor rectangle and the blend state are left as the last mesh
\* needed them.
draw_frameNoReset(w) ==
    <<Call("set_blend_state", 0)>>
    \o [i \in 1..(2 * Len(w.meshes)) |->
          IF i % 2 = 1 THEN Call("set_scissor", w.meshes[(i + 1) \div 2].rect)
          ELSE Call("mesh.draw", w.meshes[i \div 2].mesh)]

\* EguiWrapper::draw_frame: the meshes are drawn in stored order, each under
\* its own scissor rectangle.
draw_frame(w) ==
    <<Call("set_blend_state", 0)>>
    \o [i \in 1..(2 * Len(w.meshes)) |->
          IF i % 2 = 1 THEN Call("set_scissor", w.meshes[(i + 1) \div 2].rect)
          ELSE Call("mesh.draw", w.meshes[i \div 2].mesh)]
    \o <<Call("reset_scissor", 0), Call("reset_blend_state", 0)>>

\* Drawing takes the stored meshes away.
AfterDrawTaken(w) == [w EXCEPT !.meshes = <<>>]

\* The wrapper after draw_frame: the loop borrows self.meshes, nothing is
\* removed or changed.
AfterDraw(w) == w

\* The draw callback runs the GUI frame itself before it draws.
DrawCallsRunsFrame(drawOk, frame) ==
    <<[op |-> "begin_frame", arg |-> 0], [op |-> "State::ui", arg |-> 0],
      [op |-> "end_frame", arg |-> 0], [op |-> "State::draw", arg |-> 0]>>
    \o (IF drawOk THEN frame ELSE <<>>)

\* The calls of StateWrapper::draw: State::draw, then, unless it failed,
\* those of draw_frame.
DrawCalls(drawOk, frame) ==
    <<Call("State::draw", 0)>> \o (IF drawOk THEN frame ELSE <<>>)

\* StateWrapper::draw.  Gfxs: the graphics states State::draw may leave.
\* counted: how many draws of the same stored batches are counted.
Draw(Gfxs, counted) ==
    \E drawOk \in BOOLEAN, g \in Gfxs :
      LET cs == DrawCalls(drawOk, draw_frame(egui))
      IN
      /\ calls' = cs
      /\ handled' = NoEvent
      /\ entry' = g
      /\ gfx' = ApplyCalls(g, cs)
      /\ rendered' = IF Has(cs, "mesh.draw") \/ (drawOk /\ egui.meshes = <<>>)
                     THEN (IF rendered < counted THEN rendered + 1 ELSE rendered)
                     ELSE rendered
      /\ last' = Returned("draw", drawOk, <<>>, NoReports)
      /\ failure' = IF drawOk THEN "none" ELSE "State::draw"
      /\ filtered' = <<>>
      /\ egui' = IF drawOk THEN AfterDraw(egui) ELSE egui
      /\ UNCHANGED <<events, down, nextId, appended, submitted, dispatched>>

\* self.events.push(event) of StateWrapper::event.
Enqueue(q, id, e) == Append(q, [id |-> id, ev |-> e])

\* The host event is queued whatever EguiWrapper::event returned.
PushEventAlways(q, id, e, ok) == Enqueue(q, id, e)

\* `self.egui.event(ctx, &event)?; self.events.push(event);`: the push is
\* behind the `?`.
PushEvent(q, id, e, ok) == IF ok THEN Enqueue(q, id, e) ELSE q

\* Tetra updates its keyboard state before it calls the event callback.
DownAfter(e) ==
    IF e.arg \in ModifierKeys
    THEN IF e.type = "KeyPressed" THEN down \cup {e.arg} ELSE down \ {e.arg}
    ELSE down

\* The host event is handed to the game at once, whatever the GUI thinks of
\* it.
ImmediateDispatchCalls(id) == <<Call("EguiWrapper::event", id), Call("State::event", id)>>

\* The calls of StateWrapper::event: EguiWrapper::event, nothing else.
EventCallbackCalls(id) == <<Call("EguiWrapper::event", id)>>

\* StateWrapper::event for host event e, the cap-th at most.  A modifier key is
\* pressed only while up and released only while held.
Event(e, cap) ==
    /\ nextId <= cap
    /\ (e.type = "KeyPressed" /\ e.arg \in ModifierKeys) => e.arg \notin down
    /\ (e.type = "KeyReleased" /\ e.arg \in ModifierKeys) => e.arg \in down
    /\ \E clipboardOk \in BOOLEAN :
         LET r == EguiEvent(egui, e, nextId, appended,
                            DownAfter(e) \cap CtrlKeys # {}, clipboardOk)
         IN  /\ (~r.paste => clipboardOk)
             /\ egui' = r.w
             /\ appended' = appended + (Len(r.w.raw_input.events) - Len(egui.raw_input.events))
             /\ events' = PushEvent(events, nextId, e, r.ok)
             /\ calls' = EventCallbackCalls(nextId) \o r.reads
             /\ last' = Returned("event", r.ok, <<>>, NoReports)
             /\ failure' = IF r.ok THEN "none" ELSE "EguiWrapper::event"
    /\ down' = DownAfter(e)
    /\ nextId' = nextId + 1
    /\ filtered' = <<>>
    /\ handled' = e
    /\ entry' = gfx
    /\ dispatched' = dispatched \o PassedIds(EventCallbackCalls(nextId))
    /\ UNCHANGED <<submitted, rendered, gfx>>

\* StateWrapper::new.
Init ==
    /\ events = <<>>
    /\ egui = EguiWrapperNew
    /\ down = {}
    /\ nextId = 1
    /\ appended = 0
    /\ submitted = <<>>
    /\ dispatched = <<>>
    /\ last = Returned("new", TRUE, <<>>, NoReports)
    /\ calls = <<>>
    /\ filtered = <<>>
    /\ rendered = 0
    /\ gfx = DefaultGfx
    /\ entry = DefaultGfx
    /\ failure = "none"
    /\ handled = NoEvent

LifecycleEvent == \E e \in LifecycleEvents : Event(e, MaxEvents)

PointerEvent == \E e \in PointerEvents : Event(e, MaxEvents)

KeyboardEvent == \E e \in KeyboardEvents : Event(e, MaxKeyEvents)

QuietUpdate == Update(QuietOutputs, {FALSE})

EmptyUpdate == Update(EmptyOutputs, {FALSE})

KeyboardUpdate == Update(KeyboardOutputs, {FALSE})

\* A draw whose State::draw leaves Tetra's graphics state as it found it;
\* draws are not counted.
PlainDraw == Draw({gfx}, 0)

DrawEvent == \E e \in DrawEvents : Event(e, MaxEvents)

DrawUpdate == Update(DrawOutputs, {FALSE})

\* A draw whose State::draw may leave its own scissor rectangle and blend
\* state behind; draws of the same stored batches are counted up to MaxRenders.
GameDraw == Draw(GameGfx, MaxRenders)

AtlasEvent == \E e \in AtlasEvents : Event(e, MaxEvents)

\* An update in whose ctx.begin_frame the GUI library may regenerate its font
\* atlas.
AtlasUpdate == Update(QuietOutputs, BOOLEAN)

ClipboardEvent == \E e \in ClipboardEvents : Event(e, MaxEvents)

EffectEvent == \E e \in EffectEvents : Event(e, MaxEvents)

EffectUpdate == Update(EffectOutputs, {FALSE})

CopyEvent == \E e \in CopyEvents : Event(e, MaxEvents)

CopyUpdate == Update(CopyOutputs, {FALSE})

WheelEvent == \E e \in WheelEvents : Event(e, MaxKeyEvents)

UnmappedEvent == \E e \in UnmappedEvents : Event(e, MaxEvents)

\* The frame lifecycle: GUI frames of any size, key, pointer and text events.
Next == LifecycleEvent \/ QuietUpdate \/ PlainDraw

Spec == Init /\ [][Next]_vars

\* Pointer arbitration: every pointer category against every verdict.
NextPointer == PointerEvent \/ EmptyUpdate \/ PlainDraw

SpecPointer == Init /\ [][NextPointer]_vars

\* Keyboard translation: every modifier key, frames in between.
NextKeyboard == KeyboardEvent \/ KeyboardUpdate \/ PlainDraw

SpecKeyboard == Init /\ [][NextKeyboard]_vars

\* Drawing: frames of several primitives, any number of updates between draws,
\* a game that leaves graphics state behind.
NextDraw == DrawEvent \/ DrawUpdate \/ GameDraw

SpecDraw == Init /\ [][NextDraw]_vars

\* The font atlas: a GUI library that regenerates its atlas between frames.
NextAtlas == AtlasEvent \/ AtlasUpdate \/ PlainDraw

SpecAtlas == Init /\ [][NextAtlas]_vars

\* Clipboard keys: C, X and V with and without Ctrl, frames in between.
NextClipboard == ClipboardEvent \/ KeyboardUpdate \/ PlainDraw

SpecClipboard == Init /\ [][NextClipboard]_vars

\* Side effects and errors: frames that open a URL and copy text, a platform
\* that may refuse, a clipboard that may be unreadable.
NextEffects == EffectEvent \/ EffectUpdate \/ PlainDraw

SpecEffects == Init /\ [][NextEffects]_vars

\* Copying: Ctrl and C, a GUI that may want the keyboard and copy text, a
\* platform that may refuse.
NextCopy == CopyEvent \/ CopyUpdate \/ PlainDraw

SpecCopy == Init /\ [][NextCopy]_vars

\* Unmapped codes: keys and mouse buttons with and without GUI equivalent,
\* with and without Ctrl, frames of an empty GUI in between.
NextUnmapped == UnmappedEvent \/ EmptyUpdate \/ PlainDraw

SpecUnmapped == Init /\ [][NextUnmapped]_vars

\* The wheel: turned with and without Ctrl, several times a frame.
NextWheel == WheelEvent \/ EmptyUpdate \/ PlainDraw

SpecWheel == Init /\ [][NextWheel]_vars

\* ------------------------------------------------- observing a callback

\* The calls StateWrapper::update itself makes.
TopCalls(cs) ==
    Only(cs, {"begin_frame", "State::ui", "end_frame", "State::event", "State::update"})

\* The calls a callback of StateWrapper makes itself.
DirectCalls(cs) ==
    Only(cs, {"begin_frame", "State::ui", "end_frame", "State::event", "State::update",
              "State::draw", "EguiWrapper::event"})

\* The GUI frame calls of a log.
FrameCalls(cs) == Only(cs, {"begin_frame", "State::ui", "end_frame"})

IdsOf(q) == [i \in 1..Len(q) |-> q[i].id]

KeyEventsOf(q) == SelectSeq(q, LAMBDA x : IsKeyEvent(x.ev))

StrictlyIncreasing(sq) == \A i \in 1..Len(sq) : \A j \in 1..Len(sq) : i < j => sq[i] < sq[j]

\* ------------------------------------------------------------------ C1

\* C1: a StateWrapper::update that returns Ok called begin_frame, State::ui,
\* end_frame, then State::event once for each queued event the filter let
\* through, in queue order, then State::update, and nothing else in between;
\* and in any update, no State::event call comes before end_frame.
C1_TickOrder ==
    last.callback = "update" =>
        LET t == TopCalls(calls)
            let_through == SelectSeq(filtered,
                                     LAMBDA f : ~ShouldSuppress(f.ev, last.reports))
        IN  /\ \A i \in 1..Len(calls) :
                  calls[i].op = "State::event" =>
                      \E j \in 1..(i - 1) : calls[j].op = "ctx.end_frame"
            /\ last.ok =>
                  /\ OpsOf(t) = <<"begin_frame", "State::ui", "end_frame">>
                                \o [i \in 1..Len(let_through) |-> "State::event"]
                                \o <<"State::update">>
                  /\ PassedIds(calls) = IdsOf(let_through)

\* An Ok tick that passed one event on and withheld another.
C1_Witness ==
    /\ last.callback = "update" /\ last.ok
    /\ Len(PassedIds(calls)) = 1
    /\ Len(filtered) = 2

\* ------------------------------------------------------------------ C2

\* The key events of queue q that the update with log cs passed on.
PassedKeyIds(q, cs) ==
    SelectSeq(PassedIds(cs), LAMBDA id : \E i \in 1..Len(q) : q[i].id = id /\ IsKeyEvent(q[i].ev))

PointerTypes ==
    {"MouseButtonPressed", "MouseButtonReleased", "MouseMoved", "MouseWheelMoved"}

\* C3: of the queued events the drain loop reaches, a pointer event (button,
\* move, wheel) is passed to State::event exactly when the GUI does not report
\* is_using_pointer, and an event that is neither a key nor a pointer event is
\* passed whatever the GUI reports.
C3_PointerRules ==
    last.callback = "update" =>
        \A i \in 1..Len(filtered) :
            LET f == filtered[i]
                passed == \E k \in 1..Len(calls) :
                              calls[k] = Call("State::event", f.id)
            IN  /\ f.ev.type \in PointerTypes => (passed <=> ~last.reports.is_using_pointer)
                /\ (f.ev.type \notin PointerTypes /\ ~IsKeyEvent(f.ev)) => passed

\* A tick that withheld a wheel event and passed a window event on while the
\* GUI wanted the keyboard and used the pointer.
C3_Witness ==
    /\ last.callback = "update"
    /\ last.reports.is_using_pointer /\ last.reports.wants_keyboard_input
    /\ Len(filtered) = 2
    /\ filtered[1].ev.type = "MouseWheelMoved"
    /\ filtered[2].ev.type = "Resized"
    /\ PassedIds(calls) = <<2>>

\* ------------------------------------------------------------------ C4

\* C4: over all callbacks so far, the host events passed to State::event are
\* events the host delivered, each passed at most once, in delivery order;
\* none of them is still queued.
C4_NoDoubleDispatch ==
    /\ StrictlyIncreasing(dispatched)
    /\ \A i \in 1..Len(dispatched) :
          /\ dispatched[i] \in 1..(nextId - 1)
          /\ \A k \in 1..Len(events) : events[k].id # dispatched[i]
    /\ StrictlyIncreasing(IdsOf(events))

\* Two events dispatched in two different ticks.
C4_Witness ==
    /\ dispatched = <<1, 2>>
    /\ last.callback = "update"
    /\ PassedIds(calls) = <<2>>

\* ------------------------------------------------------------------ C5

\* C5 as stated: after every StateWrapper::update, whatever its result, the
\* deferred queue is empty.
C5_Original == last.callback = "update" => events = <<>>

\* ------------------------------------------------------------------ C6

\* Whether host event e is translated into at least one egui event.
Translates(e) == Translate(e, NoModifiers, FALSE) # <<>>

\* C6 as stated: every queued event the drain loop of an update reaches was
\* translated into the raw input that the begin_frame of that same update
\* handed to the GUI.
C6_Original ==
    last.callback = "update" =>
        \A i \in 1..Len(filtered) :
            Translates(filtered[i].ev) =>
                \E k \in 1..Len(last.input) : last.input[k].src = filtered[i].id

\* ------------------------------------------------------------------ C7

\* C7 as stated: between host callbacks the GUI frame is closed (Idle), and
\* every update ran begin_frame, State::ui once, and end_frame.
C7_Original ==
    /\ egui.ctx.phase = "Idle"
    /\ last.callback = "update" =>
          OpsOf(FrameCalls(calls)) = <<"begin_frame", "State::ui", "end_frame">>

\* ------------------------------------------------------------------ C8

TagsOf(gs) == [i \in 1..Len(gs) |-> gs[i].n]

\* C8: the egui events handed to the GUI so far, followed by those still in
\* the accumulator, are exactly the events pushed so far, each once and in
\* push order; every begin_frame hands over all the events that were pending
\* and leaves the accumulator's event list empty.
C8_RawInputPartition ==
    /\ [](submitted \o TagsOf(egui.raw_input.events) = [i \in 1..appended |-> i])
    /\ [][last'.callback = "update" =>
             /\ last'.input = egui.raw_input.events
             /\ egui'.raw_input.events = <<>>]_vars

\* A second frame that was handed exactly the event pushed after the first.
C8_Witness ==
    /\ last.callback = "update"
    /\ submitted = <<1, 2>>
    /\ TagsOf(last.input) = <<2>>
    /\ egui.raw_input.events = <<>>

\* ------------------------------------------------------------------ C9

\* C9 as stated: each modifier flag is TRUE exactly when at least one key of
\* its kind is physically held.
C9_Original ==
    /\ egui.raw_input.modifiers.ctrl = (down \cap CtrlKeys # {})
    /\ egui.raw_input.modifiers.shift = (down \cap ShiftKeys # {})
    /\ egui.raw_input.modifiers.alt = (down \cap AltKeys # {})

\* ----------------------------------------------------------------- C10

\* The primitives the tessellator returned in the update with log cs.
TessOf(cs) == [i \in 1..Only(cs, {"tessellate"})[1].arg |-> Prim(i)]

\* C10: after an update that returned Ok the stored batches are exactly the
\* batches of that tick's tessellation, one per primitive, whatever was
\* stored before.
C10_MeshesReplaced ==
    (last.callback = "update" /\ last.ok) =>
        /\ Has(calls, "tessellate")
        /\ egui.meshes = [i \in 1..Len(TessOf(calls)) |-> Batch(TessOf(calls)[i], "Some")]

\* An Ok tick that stored a batch, after an earlier tick that got past its
\* own end_frame.
C10_Witness ==
    /\ last.callback = "update" /\ last.ok
    /\ Len(egui.meshes) = 1
    /\ filtered = <<>> /\ dispatched # <<>>

\* ----------------------------------------------------------------- C11

\* The meshes the last callback drew, in order.
DrawnMeshes == ArgsOf(Only(calls, {"mesh.draw"}))

MeshIds(ms) == [i \in 1..Len(ms) |-> ms[i].mesh]

\* C11 as stated: every stored batch is rendered by exactly one draw before
\* it is replaced: no stored batch is ever rendered by a second draw, and an
\* update replaces stored batches only after one draw rendered them.
C11_Original ==
    [][/\ (egui'.meshes # <<>> => rendered' <= 1)
       /\ ((last'.callback = "update" /\ egui.meshes # <<>>) => rendered = 1)]_vars

\* C11, amended: a draw whose State::draw succeeded renders every stored batch
\* once and leaves the batches stored; only an update replaces them.  So the
\* batches of one end_frame are rendered once by each draw that comes before
\* the next update: not at all, once or several times.
C11_RenderedPerDraw ==
    [][/\ (last'.callback = "draw" /\ last'.ok) =>
             /\ DrawnMeshes' = MeshIds(egui.meshes)
             /\ egui'.meshes = egui.meshes
             /\ rendered' = IF rendered < MaxRenders THEN rendered + 1 ELSE rendered
       /\ (last'.callback = "draw" /\ ~last'.ok) =>
             /\ DrawnMeshes' = <<>>
             /\ egui'.meshes = egui.meshes
             /\ rendered' = rendered
       /\ egui'.meshes # egui.meshes => last'.callback = "update"]_vars

\* The same stored batches were rendered by a second draw.
C11_Witness ==
    /\ last.callback = "draw" /\ last.ok
    /\ egui.meshes # <<>>
    /\ DrawnMeshes = MeshIds(egui.meshes)
    /\ rendered = 2

\* ----------------------------------------------------------------- C12

\* The scissor rectangle in force when the i-th call of log cs is made: the
\* argument of the last set_scissor before it, 0 if there is none.
RECURSIVE ScissorAt(_, _)
ScissorAt(cs, i) ==
    IF i <= 1 THEN 0
    ELSE IF cs[i - 1].op = "set_scissor" THEN cs[i - 1].arg
    ELSE ScissorAt(cs, i - 1)

\* The scissor rectangles under which the meshes of log cs were drawn, in
\* order.
DrawnRects(cs) ==
    LET at == SelectSeq([i \in 1..Len(cs) |-> i], LAMBDA i : cs[i].op = "mesh.draw")
    IN  [k \in 1..Len(at) |-> ScissorAt(cs, at[k])]

\* C12: a draw whose State::draw succeeded calls State::draw first and once,
\* then draws the N stored batches, each once, in the order end_frame stored
\* them (the tessellator's order), each with the scissor set to its own clip
\* rectangle.
C12_DrawOrder ==
    (last.callback = "draw" /\ last.ok) =>
        /\ calls[1].op = "State::draw"
        /\ Len(Only(calls, {"State::draw"})) = 1
        /\ DrawnMeshes = MeshIds(egui.meshes)
        /\ StrictlyIncreasing(DrawnMeshes)
        /\ DrawnRects(calls) = [i \in 1..Len(egui.meshes) |-> egui.meshes[i].rect]

\* Two batches with different clip rectangles were drawn.
C12_Witness ==
    /\ last.callback = "draw" /\ last.ok
    /\ Len(egui.meshes) = 2
    /\ DrawnRects(calls) = <<1, 2>>

\* ----------------------------------------------------------------- C13

\* C13 as stated: after a draw_frame the scissor rectangle and the blend
\* state are what they were when draw_frame was entered.
C13_Original ==
    (last.callback = "draw" /\ last.ok) => gfx = entry

\* C13, amended: after a draw_frame there is no scissor rectangle and the
\* blend state is Tetra's default one, whatever State::draw had left; a draw
\* whose State::draw failed leaves both as State::draw left them.
C13_ResetToDefaults ==
    last.callback = "draw" =>
        IF last.ok THEN gfx = DefaultGfx ELSE gfx = entry

\* State::draw left its own scissor rectangle and blend state and the GUI was
\* drawn after it.
C13_Witness ==
    /\ last.callback = "draw" /\ last.ok
    /\ entry = Gfx(TRUE, 0, "game")
    /\ egui.meshes # <<>>
    /\ gfx = DefaultGfx

\* ----------------------------------------------------------------- C14

\* The positions of the calls of operation op in log cs.
PositionsOf(cs, op) == {i \in 1..Len(cs) : cs[i].op = op}

\* C14: StateWrapper::event calls EguiWrapper::event and never State::event;
\* every State::event call is made by an update, after its end_frame, for a
\* host event that an earlier event callback queued.
C14_EventNeverDispatches ==
    /\ last.callback = "event" =>
           /\ ~Has(calls, "State::event")
           /\ OpsOf(DirectCalls(calls)) = <<"EguiWrapper::event">>
           /\ \A i \in 1..Len(dispatched) : dispatched[i] # calls[1].arg
    /\ Has(calls, "State::event") =>
           /\ last.callback = "update"
           /\ \A i \in PositionsOf(calls, "State::event") :
                  /\ \E j \in PositionsOf(calls, "end_frame") : j < i
                  /\ calls[i].arg < nextId

\* An event callback queued its event after an earlier event had been handed
\* to the game by an update.
C14_Witness ==
    /\ last.callback = "event" /\ last.ok
    /\ dispatched # <<>>
    /\ events # <<>>
    /\ events[Len(events)].id = calls[1].arg

\* ----------------------------------------------------------------- C15

\* C15: a begin_frame that finds a cached texture made from the atlas version
\* the GUI library still reports creates no texture and leaves the cached one
\* as it is; a begin_frame that finds none creates at most one.  So two
\* begin_frame calls under one atlas version upload once in total.
C15_UploadOnce ==
    [][last'.callback = "update" =>
          /\ egui'.uploads <= egui.uploads + 1
          /\ (egui.texture = "None" /\ Has(calls', "State::ui")) =>
                 egui'.uploads = egui.uploads + 1
          /\ (egui.texture # "None" /\ egui'.ctx.font_version = egui.texture_version) =>
                 /\ egui'.uploads = egui.uploads
                 /\ egui'.texture = egui.texture
                 /\ egui'.texture_version = egui.texture_version]_vars

\* An update handed the first host event to the game, so its begin_frame left
\* a texture; a later update handed over the second, under the same atlas
\* version, and one texture has been created in all.
C15_Witness ==
    /\ last.callback = "update"
    /\ PassedIds(calls) = <<2>>
    /\ dispatched = <<1, 2>>
    /\ egui.uploads = 1
    /\ egui.texture = "Some"
    /\ egui.texture_version = egui.ctx.font_version

\* ----------------------------------------------------------------- C16

\* C16 as stated: after every begin_frame that returned Ok, the cached
\* texture was made from the atlas version the GUI library currently reports.
C16_Original ==
    (last.callback = "update" /\ Has(calls, "State::ui")) =>
        /\ egui.texture # "None"
        /\ egui.texture_version = egui.ctx.font_version

\* ----------------------------------------------------------------- C19

\* The egui events the last event callback appended to the raw input.
Appended == SelectSeq(egui.raw_input.events, LAMBDA g : g.src = calls[1].arg)

KindsOf(gs) == [i \in 1..Len(gs) |-> gs[i].kind]

\* The last callback handled a press of one of the clipboard keys.
ClipboardKeyPressed ==
    /\ last.callback = "event"
    /\ handled.type = "KeyPressed"
    /\ handled.arg \in {"C", "X", "V"}

CtrlHeld == down \cap CtrlKeys # {}

\* C19 as stated: a press of C, X or V with a Ctrl key held appends one
\* dedicated Copy, Cut or Paste intent; without Ctrl it appends none.
C19_Original ==
    ClipboardKeyPressed =>
        LET intents == SelectSeq(Appended, LAMBDA g : g.kind \in {"Copy", "Cut", "Paste"})
        IN  IF CtrlHeld
            THEN KindsOf(intents) = <<CASE handled.arg = "C" -> "Copy"
                                        [] handled.arg = "X" -> "Cut"
                                        [] handled.arg = "V" -> "Paste">>
            ELSE intents = <<>>

\* C19, amended: with a Ctrl key held, a press of C appends one Copy event,
\* a press of X one Cut event, and a press of V, when the clipboard could be
\* read, one Text event with the clipboard's contents (there is no paste
\* event); when the clipboard could not be read the callback fails and
\* appends nothing.  Without Ctrl none of these is appended.
C19_ClipboardEvents ==
    ClipboardKeyPressed =>
        LET intents == SelectSeq(Appended,
                                 LAMBDA g : \/ g.kind \in {"Copy", "Cut", "Paste"}
                                            \/ g.kind = "Text")
        IN  IF ~CtrlHeld THEN last.ok /\ intents = <<>>
            ELSE IF ~last.ok THEN handled.arg = "V" /\ Appended = <<>>
            ELSE /\ Len(intents) = 1
                 /\ intents[1].kind = (CASE handled.arg = "C" -> "Copy"
                                         [] handled.arg = "X" -> "Cut"
                                         [] handled.arg = "V" -> "Text")
                 /\ intents[1].arg = (IF handled.arg = "V" THEN "clipboard" ELSE "-")

\* V was pressed with Ctrl held and the clipboard's contents were appended as
\* a Text event.
C19_Witness ==
    /\ ClipboardKeyPressed /\ CtrlHeld /\ last.ok
    /\ handled.arg = "V"
    /\ KindsOf(Appended) = <<"Text", "KeyDown">>

\* ----------------------------------------------------------------- C20

\* The Key events among egui events gs.
KeysOf(gs) == SelectSeq(gs, LAMBDA g : g.kind \in {"KeyDown", "KeyUp"})

StepRank(op) ==
    CASE op = "begin_frame" -> 1
      [] op = "State::ui" -> 2
      [] op = "end_frame" -> 3
      [] op = "State::event" -> 4
      [] op = "State::update" -> 5

\* C17: a callback returns an error exactly when one of its steps did.  In an
\* update the failed step is the last step called, it was called once (a
\* failed State::event once for its event), and the steps were called in
\* order, so none of the later steps was called.  A draw whose State::draw
\* failed called nothing else, and an event callback whose EguiWrapper::event
\* failed called nothing else and returns the error.
C17_ErrorsAbort ==
    /\ last.ok <=> failure = "none"
    /\ (last.callback = "update" /\ failure # "none") =>
          LET t == TopCalls(calls)
          IN  /\ t # <<>>
              /\ t[Len(t)].op = failure
              /\ \A i \in 1..Len(t) : i < Len(t) => t[i] # t[Len(t)]
              /\ \A i \in 1..Len(t) : \A j \in 1..Len(t) :
                     i < j => /\ StepRank(t[i].op) <= StepRank(t[j].op)
                              /\ t[i] # t[j]
    /\ (last.callback = "draw" /\ failure # "none") =>
          /\ failure = "State::draw"
          /\ OpsOf(calls) = <<"State::draw">>
    /\ (last.callback = "event" /\ failure # "none") =>
          /\ failure = "EguiWrapper::event"
          /\ OpsOf(DirectCalls(calls)) = <<"EguiWrapper::event">>

\* A State::event call failed in the drain loop with a queued event behind
\* it: that event was not dispatched and State::update was not called.
C17_Witness ==
    /\ last.callback = "update" /\ ~last.ok
    /\ failure = "State::event"
    /\ PassedIds(calls) = <<1>>
    /\ nextId = 3
    /\ events = <<>>
    /\ ~Has(calls, "State::update")

\* ----------------------------------------------------------------- C18

C21_ModifiersSurviveFrame ==
    [][last'.callback = "update" =>
          /\ egui'.raw_input.modifiers = egui.raw_input.modifiers
          /\ egui'.raw_input.events = <<>>]_vars

\* Ctrl was pressed, an update took the raw input and handed the Ctrl press to
\* the game, and the key pressed after it carries ctrl.
C21_Witness ==
    /\ last.callback = "event" /\ last.ok
    /\ handled = HostEvent("KeyPressed", "C")
    /\ calls[1].arg = 2
    /\ dispatched = <<1>>
    /\ submitted = <<>>
    /\ KeysOf(Appended) # <<>>
    /\ KeysOf(Appended)[1].modifiers.ctrl

\* ----------------------------------------------------------------- C22

\* KeyPressed(Ctrl) and then KeyPressed(C) have arrived since the last
\* begin_frame and nothing else is pending.
CtrlCArrived ==
    /\ Len(events) = 2
    /\ events[1].ev = HostEvent("KeyPressed", "LeftCtrl")
    /\ events[2].ev = HostEvent("KeyPressed", "C")
    /\ \A i \in 1..Len(egui.raw_input.events) :
          egui.raw_input.events[i].src \in {events[1].id, events[2].id}
    /\ \E i \in 1..Len(egui.raw_input.events) : egui.raw_input.events[i].src = events[2].id

\* The calls of set_contents in a log.
SetTexts(cs) == Only(cs, {"set_contents"})

\* The Copy intent is in the tick's raw input, neither key event reaches
\* State::event, and the clipboard is set once, with the copied text.
CtrlCHandled(q, input, cs, text) ==
    /\ \E i \in 1..Len(input) : input[i].kind = "Copy" /\ input[i].src = q[2].id
    /\ \A i \in 1..Len(PassedIds(cs)) : PassedIds(cs)[i] \notin {q[1].id, q[2].id}
    /\ SetTexts(cs) = <<Call("set_contents", TextCode(text))>>

ReachedClipboardStep(cs, step) ==
    step = "end_frame" => cs[Len(cs)].op = "set_contents"

ClipboardCalls(cs) == Only(cs, {"get_contents", "set_contents"})

\* C23: the clipboard is read only by an event callback that translates a
\* KeyPressed for V with a Ctrl key held, once; a draw makes no clipboard
\* call; an update makes none but the set_contents of its end_frame, which is
\* made only for a frame output with copied text, after ctx.end_frame and
\* before the drain loop.  So a tick without copied text makes no clipboard
\* call.
C23_ClipboardBounded ==
    /\ last.callback = "event" =>
          IF handled = HostEvent("KeyPressed", "V") /\ CtrlHeld
          THEN OpsOf(ClipboardCalls(calls)) = <<"get_contents">>
          ELSE ClipboardCalls(calls) = <<>>
    /\ last.callback = "draw" => ClipboardCalls(calls) = <<>>
    /\ last.callback = "update" =>
          /\ ~Has(calls, "get_contents")
          /\ Len(ClipboardCalls(calls)) <= 1
          /\ last.reports.copied_text = "" => ClipboardCalls(calls) = <<>>
          /\ \A i \in PositionsOf(calls, "set_contents") :
                 /\ \E j \in PositionsOf(calls, "ctx.end_frame") : j < i
                 /\ \A j \in PositionsOf(calls, "State::event") : i < j

\* The clipboard was read for a Ctrl+V press, and the tick before it, which
\* had no copied text, made no clipboard call.
C23_Witness ==
    /\ last.callback = "event" /\ last.ok
    /\ handled = HostEvent("KeyPressed", "V")
    /\ CtrlHeld
    /\ ClipboardCalls(calls) = <<Call("get_contents", 1)>>
    /\ dispatched = <<1>>

\* ----------------------------------------------------------------- C24

\* The last callback handled a key event for a key without GUI equivalent, or
\* a mouse button event for a button other than left, middle and right.
UnmappedHandled ==
    /\ last.callback = "event"
    /\ \/ handled.type \in {"KeyPressed", "KeyReleased"} /\ handled.arg \in {"F1"} \cup ModifierKeys
       \/ /\ handled.type \in {"MouseButtonPressed", "MouseButtonReleased"}
          /\ handled.arg \notin {"Left", "Middle", "Right"}

\* C24: an event callback for a key or a mouse button without GUI equivalent
\* appends no event to the raw input, EguiWrapper::event returns Ok, and the
\* host event is queued at the tail of the deferred queue.
C24_UnmappedIgnored ==
    UnmappedHandled =>
        /\ Appended = <<>>
        /\ last.ok
        /\ failure = "none"
        /\ events # <<>>
        /\ events[Len(events)] = [id |-> calls[1].arg, ev |-> handled]

\* An unmapped mouse button was pressed after a mapped key: both host events
\* are queued, the raw input holds the mapped key's event only.
C24_Witness ==
    /\ UnmappedHandled
    /\ handled = HostEvent("MouseButtonPressed", "X1")
    /\ Len(events) = 2
    /\ KindsOf(egui.raw_input.events) = <<"KeyDown">>

\* ----------------------------------------------------------------- C25

\* C25: an event callback for MouseWheelMoved leaves the events already in the
\* raw input in place and appends exactly one: a Zoom if a Ctrl key is down,
\* a Scroll otherwise.
C25_WheelAppendsOne ==
    [][(nextId' # nextId /\ handled'.type = "MouseWheelMoved") =>
          LET old == egui.raw_input.events
              new == egui'.raw_input.events
          IN  /\ Len(new) = Len(old) + 1
              /\ SubSeq(new, 1, Len(old)) = old
              /\ new[Len(new)].kind = IF down' \cap CtrlKeys # {} THEN "Zoom" ELSE "Scroll"
              /\ new[Len(new)].src = nextId
              /\ last'.ok]_vars

\* The wheel was turned twice in one frame, the second time under Ctrl: both
\* events are in the raw input.
C25_Witness ==
    /\ last.callback = "event"
    /\ handled.type = "MouseWheelMoved"
    /\ KindsOf(egui.raw_input.events) = <<"Scroll", "Zoom">>

\* ----------------------------------------------------------------- C26

\* The last callback translated a Ctrl+V press and the clipboard failed.
PasteFailed ==
    /\ last.callback = "event"
    /\ handled = HostEvent("KeyPressed", "V")
    /\ CtrlHeld
    /\ Has(calls, "get_contents")
    /\ \A i \in PositionsOf(calls, "get_contents") : calls[i].arg = 0

\* C26: when the clipboard fails for a Ctrl+V press, EguiWrapper::event
\* returns Error::ClipboardError and has appended nothing to the raw input:
\* no text event and no Key event for V.
C26_PasteFailure ==
    PasteFailed =>
        /\ ~last.ok
        /\ failure = "EguiWrapper::event"
        /\ calls[Len(calls)].op = "Error::ClipboardError"
        /\ Appended = <<>>

\* A paste failed right after the Ctrl press: the raw input is empty, the
\* Ctrl flag is set, the queue holds the Ctrl press only.
C26_Witness ==
    /\ PasteFailed
    /\ egui.raw_input.events = <<>>
    /\ egui.raw_input.modifiers.ctrl
    /\ Len(events) = 1

\* ----------------------------------------------------------------- C27

\* The last callback was an update whose end_frame ran with a texture stored.
EndFrameRan ==
    /\ last.callback = "update"
    /\ Has(calls, "tessellate")
    /\ egui.texture # "None"

\* The batches of the primitives of the last tessellation, in its order, each
\* with its primitive's clip rectangle and the stored texture.
BatchesOf(cs) == [i \in 1..Len(TessOf(cs)) |-> Batch(TessOf(cs)[i], egui.texture)]

Delivered == {dispatched[i] : i \in 1..Len(dispatched)}

\* The ids of the host events in the deferred queue.
Queued == {events[i].id : i \in 1..Len(events)}

\* C28: an update in which State::event returned an error passed the queued
\* events before the failing one and none after it, did not call
\* State::update and left the deferred queue empty; and a host event that is
\* neither queued nor delivered is never delivered by a later step, so the
\* events behind the failing one are lost for good.
C28_MidDrainFailure ==
    [][/\ (last'.callback = "update" /\ failure' = "State::event") =>
             /\ events' = <<>>
             /\ ~Has(calls', "State::update")
             /\ PassedIds(calls') # <<>>
             /\ calls'[Len(calls')].op = "State::event"
       /\ \A id \in 1..(nextId - 1) :
             (id \notin Queued /\ id \notin Delivered) => id \notin Delivered']_vars

\* A Ctrl press and a successful paste were queued; State::event failed for
\* the first, the second was dropped with the queue.
C28_Witness ==
    /\ last.callback = "update" /\ failure = "State::event"
    /\ KindsOf(last.input) = <<"Text", "KeyDown">>
    /\ PassedIds(calls) = <<1>>
    /\ dispatched = <<1>>
    /\ events = <<>>

\* ----------------------------------------------------------------- C29

\* C29: an event callback in which EguiWrapper::event returned an error (the
\* clipboard failed for a Ctrl+V press) returns that error and leaves the
\* deferred queue as it was; one in which it returned Ok appends the host
\* event at the tail of the queue.  Every host event a step passes to
\* State::event was in the queue before the step, so an event that was not
\* queued is never passed.
C29_FailedEventNotQueued ==
    [][/\ nextId' # nextId =>
             IF last'.ok
             THEN events' = Append(events, [id |-> nextId, ev |-> handled'])
             ELSE /\ events' = events
                  /\ failure' = "EguiWrapper::event"
                  /\ Has(calls', "Error::ClipboardError")
                  /\ handled' = HostEvent("KeyPressed", "V")
       /\ \A id \in Delivered' : id \in Delivered \/ id \in Queued]_vars

\* A paste was refused, and the update after it dispatched the Ctrl press
\* only: the V press was never queued.
C29_Witness ==
    /\ last.callback = "update" /\ last.ok
    /\ nextId = 3
    /\ PassedIds(calls) = <<1>>
    /\ dispatched = <<1>>
    /\ last.input = <<>>
    /\ events = <<>>

\* ----------------------------------------------------------------- C30

\* C30: a draw callback leaves the wrapper (stored batches, raw input,
\* texture, GUI context) and the deferred queue as they were and calls none
\* of begin_frame, State::ui and end_frame; and as long as no texture was
\* stored, which includes every draw before the first update, a draw renders
\* no batch.
C30_DrawLeavesFrameAlone ==
    [][last'.callback = "draw" =>
          /\ egui'.meshes = egui.meshes
          /\ egui'.raw_input = egui.raw_input
          /\ egui'.texture = egui.texture
          /\ egui' = egui
          /\ events' = events
          /\ FrameCalls(calls') = <<>>
          /\ ~Has(calls', "State::event") /\ ~Has(calls', "State::update")
          /\ egui'.texture = "None" => ~Has(calls', "mesh.draw")]_vars

\* A draw rendered two stored batches while a host event was queued and its
\* translation pending: all of it is still there.
C30_Witness ==
    /\ last.callback = "draw" /\ last.ok
    /\ Len(DrawnMeshes) = 2
    /\ Len(egui.meshes) = 2
    /\ egui.raw_input.events # <<>>
    /\ events # <<>>
    /\ egui.texture # "None"

\* ----------------------------------------------------------------- C31

\* The side effects an update attempted.
SideEffects(cs) == Only(cs, {"open::that", "set_contents"})

\* What an update whose end_frame ran with a texture leaves: the side effects
\* come after the tessellation, open::that before set_contents, each at most
\* once; after a failed open::that nothing is called, whatever text the frame
\* copied; a side effect is attempted only with all batches of the frame
\* stored, so they are stored when it fails.
EndFrameOrdered(cs, step, ok, meshes) ==
    /\ \A i \in PositionsOf(cs, "tessellate") :
          \A j \in PositionsOf(cs, "open::that") \cup PositionsOf(cs, "set_contents") : i < j
    /\ \A i \in PositionsOf(cs, "open::that") :
          /\ \A j \in PositionsOf(cs, "set_contents") : i < j
          /\ cs[i].arg # OutcomeCode("ok") =>
                /\ i = Len(cs)
                /\ ~Has(cs, "set_contents")
                /\ ~ok /\ step = "end_frame"
    /\ Len(Only(cs, {"open::that"})) <= 1
    /\ Len(Only(cs, {"set_contents"})) <= 1
    /\ SideEffects(cs) # <<>> =>
          meshes = [i \in 1..Len(TessOf(cs)) |-> Batch(TessOf(cs)[i], "Some")]

\* The last callback was an update whose end_frame failed in a side effect.
SideEffectFailed ==
    /\ last.callback = "update"
    /\ failure = "end_frame"
    /\ SideEffects(calls) # <<>>

\* C31: in every update whose end_frame ran, the batches are built and stored
\* before any side effect, open::that is attempted before set_contents, and a
\* failed open::that ends end_frame without the clipboard write the frame
\* asked for; when a side effect failed, the frame's batches are stored and
\* the next draw, if its State::draw succeeds, draws them.
C31_SideEffectOrder ==
    [][/\ (last'.callback = "update" /\ Has(calls', "tessellate")) =>
             EndFrameOrdered(calls', failure', last'.ok, egui'.meshes)
       /\ (SideEffectFailed /\ last'.callback = "draw" /\ last'.ok) =>
             /\ egui.meshes = [i \in 1..Len(TessOf(calls)) |-> Batch(TessOf(calls)[i], "Some")]
             /\ ArgsOf(Only(calls', {"mesh.draw"})) = MeshIds(egui.meshes)]_vars

\* The frame stored a batch, asked for a URL and for a clipboard write, and
\* the URL failed to open: the batch is stored, the clipboard was not written.
C31_Witness ==
    /\ SideEffectFailed
    /\ calls[Len(calls)].op = "open::that"
    /\ last.reports.copied_text # ""
    /\ Len(egui.meshes) = 1

====
